---- MODULE Spec2Model ----
(***************************************************************************)
(* Bulk operation orchestrator of the Dynatrace backup/restore tool:       *)
(* BulkOperationService (bulk_backup, bulk_restore, bulk_compare), the     *)
(* request handlers that create the BulkOperation rows and schedule the    *)
(* background tasks, MonacoCliService.export_configs / restore_configs and *)
(* the tables and the backup directory they act on.                        *)
(*                                                                         *)
(* One action is one handler or one iteration of a task's loop.  Remote    *)
(* calls, the external tool and the database are the environment: what     *)
(* they answer is drawn with \E from the outcomes the code distinguishes.  *)
(* Timestamps of rows are kept as "set / not set"; the wall clock that     *)
(* names export directories is the variable now, in whole seconds.         *)
(***************************************************************************)
EXTENDS Integers, Sequences, FiniteSets, TLC

\* ---------------------------------------------------------------- bounds
MaxEnvs == 2        \* environment rows 1..MaxEnvs exist initially
MaxTargets == 2     \* longest id list of a request
MaxOld == 2         \* backups that exist before the bulk operation starts
MaxClock == 1       \* seconds the wall clock can advance
MaxPairs == 2       \* most (backup, target) pairs of a restore request
MaxList == 2        \* longest category list handed to a function directly

EnvIds == 1..MaxEnvs
\* One bulk operation per behaviour.  Operations act on each other only
\* through the tables and the backup directory; what earlier ones left there
\* is part of the initial state.
JobIds == {1}
\* Likewise one single restore (POST /api/restore/execute) per behaviour
RestoreIds == {1}

Range(s) == {s[i] : i \in DOMAIN s}

\* Id lists a request can carry (duplicates and the empty list are accepted).
IdLists(S) == UNION {[1..n -> S] : n \in 0..MaxTargets}

\* BackupStatus
Terminal == {"success", "partial", "failed"}

\* ------------------------------------------------------------ row shapes
NewBulkOperation(type, env_ids, st) ==
    [operation_type     |-> type,
     environment_ids    |-> env_ids,
     total_environments |-> Len(env_ids),
     status             |-> st,
     started_at         |-> FALSE,
     completed_at       |-> FALSE,
     successful_count   |-> 0,
     failed_count       |-> 0,
     partial_count      |-> 0,
     error_message      |-> "",
     results_summary    |-> <<>>]

\* One value of the results dict.  backup_id 0: the key is absent.
Entry(st, reason, backup_id) ==
    [status |-> st, reason |-> reason, backup_id |-> backup_id]

\* results[key] = value
Put(f, k, v) == [x \in (DOMAIN f) \cup {k} |-> IF x = k THEN v ELSE f[x]]

\* str(env_id), the key of a backup or compare result
EnvKey(e) == <<"env", e>>
\* f"backup_{backup_id}_env_{target_env_id}", the key of a restore result
PairKey(b, e) == <<"backup", b, "env", e>>

\* ------------------------------------------------------------- variables
VARIABLES
    envs,       \* ids of the rows of dynatrace_environments
    backups,    \* table backups: row id -> row (ids are handed out in order)
    dirs,       \* names of the directories that exist under BACKUP_DIR
    now,        \* wall clock, seconds
    bulk_ops,   \* table bulk_operations as committed: row id -> row
    task,       \* per bulk operation: arguments and locals of its background task
    last,       \* what the latest loop iteration of any task did (observation)
    request,    \* the latest bulk request and the reply it got (observation)
    call,       \* the latest direct call of a function, with its result
    restores,   \* table restore_history: the rows made by POST /api/restore/execute
    comparisons, \* table config_comparisons: row id -> row
    env_rows    \* columns description, is_healthy and last_tested_at of the
                \* rows of dynatrace_environments (of no meaning for an id
                \* whose row is deleted)

vars == <<envs, backups, dirs, now, bulk_ops, task, last, request, call, restores,
          comparisons, env_rows>>

\* ---------------------------------------------------------- config_catalog
CONFIG_PRESETS ==
    [core |-> <<"alerting", "dashboards", "slo", "maintenance", "notification",
                "management_zone">>,
     ops  |-> <<"alerting", "dashboards", "slo", "anomaly_detection",
                "metric_events">>,
     full |-> <<"all">>]

\* Variant of resolve_config_types in which a non-empty explicit list wins
\* over the preset
ResolveListFirst(config_types, config_type, config_preset) ==
    IF config_types # <<>>
    THEN [ok |-> TRUE, types |-> config_types]
    ELSE IF config_preset # ""
    THEN IF config_preset \in DOMAIN CONFIG_PRESETS
         THEN [ok |-> TRUE, types |-> CONFIG_PRESETS[config_preset]]
         ELSE [ok |-> FALSE, types |-> <<>>]
    ELSE IF config_type # ""
    THEN [ok |-> TRUE, types |-> <<config_type>>]
    ELSE [ok |-> TRUE, types |-> <<>>]

\* resolve_config_types.  None, "" and [] are all falsy: an absent argument
\* is "" or <<>>.  ok = FALSE: ValueError("Unknown config preset: ...")
resolve_config_types(config_types, config_type, config_preset) ==
    IF config_preset # ""
    THEN IF config_preset \in DOMAIN CONFIG_PRESETS
         THEN [ok |-> TRUE, types |-> CONFIG_PRESETS[config_preset]]
         ELSE [ok |-> FALSE, types |-> <<>>]
    ELSE IF config_types # <<>>
    THEN [ok |-> TRUE, types |-> config_types]
    ELSE IF config_type # ""
    THEN [ok |-> TRUE, types |-> <<config_type>>]
    ELSE [ok |-> TRUE, types |-> <<>>]

\* CONFIG_TYPES: key -> monaco_apis
CONFIG_TYPES ==
    [alerting |-> <<"alerting-profile">>,
     dashboards |-> <<"dashboard">>,
     slo |-> <<"slo">>,
     rules |-> <<"request-naming-service", "service-resource-naming",
                 "conditional-naming-service", "conditional-naming-processgroup",
                 "conditional-naming-host">>,
     maintenance |-> <<"maintenance-window">>,
     notification |-> <<"notification">>,
     management_zone |-> <<"management-zone">>,
     anomaly_detection |-> <<"anomaly-detection-metrics",
                             "anomaly-detection-applications",
                             "anomaly-detection-services",
                             "anomaly-detection-hosts",
                             "anomaly-detection-vmware",
                             "anomaly-detection-aws",
                             "anomaly-detection-database-services",
                             "anomaly-detection-disks",
                             "frequent-issue-detection">>,
     auto_tags |-> <<"auto-tag">>,
     application_detection |-> <<"app-detection-rule", "app-detection-rule-host">>,
     service_detection |-> <<"service-detection-full-web-request",
                             "service-detection-full-web-service",
                             "service-detection-opaque-web-request",
                             "service-detection-opaque-web-service">>,
     request_attributes |-> <<"request-attributes">>,
     metric_events |-> <<"anomaly-detection-metrics">>,
     synthetic_monitors |-> <<"synthetic-monitor", "synthetic-location">>,
     extensions |-> <<"extension">>]

\* The order of Python's str comparison on the names of the catalog
ApiOrder ==
    <<"alerting-profile", "anomaly-detection-applications",
      "anomaly-detection-aws", "anomaly-detection-database-services",
      "anomaly-detection-disks", "anomaly-detection-hosts",
      "anomaly-detection-metrics", "anomaly-detection-services",
      "anomaly-detection-vmware", "app-detection-rule",
      "app-detection-rule-host", "auto-tag", "conditional-naming-host",
      "conditional-naming-processgroup", "conditional-naming-service",
      "dashboard", "extension", "frequent-issue-detection",
      "maintenance-window", "management-zone", "notification",
      "request-attributes", "request-naming-service",
      "service-detection-full-web-request",
      "service-detection-full-web-service",
      "service-detection-opaque-web-request",
      "service-detection-opaque-web-service", "service-resource-naming",
      "slo", "synthetic-location", "synthetic-monitor">>

\* sorted(set(apis))
SortedSet(apis) ==
    LET member(a) == a \in apis IN SelectSeq(ApiOrder, member)

\* Variant of build_monaco_api_filters that skips the keys of no catalog
\* entry
BuildFiltersSkippingUnknown(config_types) ==
    IF config_types = <<>> \/ "all" \in Range(config_types)
    THEN [resolved |-> TRUE, apis |-> <<>>]
    ELSE [resolved |-> TRUE,
          apis |-> SortedSet(UNION {Range(CONFIG_TYPES[k]) :
                        k \in Range(config_types) \cap DOMAIN CONFIG_TYPES})]

\* build_monaco_api_filters.  resolved = FALSE: None; apis = <<>>: no filter
build_monaco_api_filters(config_types) ==
    IF config_types = <<>> \/ "all" \in Range(config_types)
    THEN [resolved |-> TRUE, apis |-> <<>>]
    ELSE IF \E k \in Range(config_types) : k \notin DOMAIN CONFIG_TYPES
    THEN [resolved |-> FALSE, apis |-> <<>>]
    ELSE [resolved |-> TRUE,
          apis |-> SortedSet(UNION {Range(CONFIG_TYPES[k]) :
                                        k \in Range(config_types)})]

\* The (config_types, config_type, config_preset) selectors bulk requests
\* come with: a preset, an explicit list, nothing, and an unknown preset
\* next to a single category.
Selectors ==
    {[config_types |-> <<>>, config_type |-> "", config_preset |-> "full"],
     [config_types |-> <<"alerting">>, config_type |-> "", config_preset |-> ""],
     [config_types |-> <<>>, config_type |-> "", config_preset |-> ""],
     [config_types |-> <<>>, config_type |-> "alerting", config_preset |-> "bogus"]}

\* The selector resolves to at least one category
Resolvable(sel) ==
    LET r == resolve_config_types(sel.config_types, sel.config_type, sel.config_preset)
    IN  r.ok /\ r.types # <<>>

\* What the external tool does with one invocation.
ToolOutcomes == {"ok", "nonzero", "timeout", "error"}

\* What the environment answers during one loop iteration:
\*   raise   - a database call raises: "query" the row lookup that opens the
\*             iteration, "commit" the commit that stores the iteration's row
\*   healthy - test_connection() succeeds
\*   failing - categories whose preflight read fails
\*   tool    - the external tool's outcome
AllInputs ==
    [raise : {"none", "query", "commit"}, healthy : BOOLEAN,
     failing : SUBSET {"alerting"}, tool : ToolOutcomes]

Deviations(inp) ==
    (IF inp.raise = "none" THEN 0 ELSE 1) + (IF inp.healthy THEN 0 ELSE 1)
    + (IF inp.failing = {} THEN 0 ELSE 1) + (IF inp.tool = "ok" THEN 0 ELSE 1)

\* One thing goes wrong per iteration at most: the first failure ends the
\* iteration, so further ones change nothing.
Inputs == {inp \in AllInputs : Deviations(inp) <= 1}

\* ---------------------------------------------------------- BackupService
\* The paths below an artifact directory, in the order sorted() puts them
PathOrder == <<"manifest.yaml", "project", "project/alerting-profile.json">>

\* hasher.update() over the chunks, one after the other
RECURSIVE Fed(_, _)
Fed(paths, tree) ==
    IF paths = <<>> THEN <<>>
    ELSE (IF tree[Head(paths)].is_file THEN tree[Head(paths)].bytes ELSE <<>>)
         \o Fed(Tail(paths), tree)

\* hashlib.sha256(...).hexdigest(): one digest per byte string
Sha256(bytes) == <<"sha256", bytes>>

\* Variant of _calculate_checksum that reads the files as rglob lists them
ChecksumInListingOrder(listing, tree) == Sha256(Fed(listing, tree))

\* _calculate_checksum on the entries `listing` that rglob('*') yields
calculate_checksum(listing, tree) ==
    LET listed(p) == p \in Range(listing)
    IN  Sha256(Fed(SelectSeq(PathOrder, listed), tree))

\* get_backup_info: the sizes of the regular files added up, and their number
get_backup_info(tree) ==
    [size_bytes |-> Len(Fed(PathOrder, tree)),
     file_count |-> Cardinality({p \in DOMAIN tree : tree[p].is_file})]

\* What a successful export writes: a manifest and one project file, or a
\* manifest and an empty project directory
ExportedTrees ==
    {[p \in Range(PathOrder) |->
        [is_file |-> p # "project",
         bytes |-> IF p = "manifest.yaml" THEN <<104>>
                   ELSE IF p = "project" THEN <<>> ELSE <<104, 105>>,
         mtime |-> 0, mode |-> "rw-r--r--"]],
     [p \in Range(PathOrder) |->
        [is_file |-> p = "manifest.yaml",
         bytes |-> IF p = "manifest.yaml" THEN <<104>> ELSE <<>>,
         mtime |-> 0, mode |-> "rw-r--r--"]]}

\* The tree the exports of the bulk operations write
ExportedTree == CHOOSE tree \in ExportedTrees : tree["project/alerting-profile.json"].is_file

\* ------------------------------------------------- DynatraceAPIService
ProbedTypes == {"alerting", "dashboards", "slo", "management_zone", "notification"}

\* preflight_config_access: the categories whose check failed
PreflightErrors(config_types, failing) ==
    IF config_types = <<>> \/ "all" \in Range(config_types)
    THEN {}
    ELSE {c \in ProbedTypes : c \in Range(config_types) /\ c \in failing}

\* The keys of `checks`, in the order of the dict
CheckOrder == <<"alerting", "dashboards", "slo", "management_zone", "notification">>

\* f"{config_type}: {message}"
PreflightError(config_type) == [category |-> config_type, message |-> "error"]

RECURSIVE ErrorsOf(_)
ErrorsOf(categories) ==
    IF categories = <<>> THEN <<>>
    ELSE <<PreflightError(Head(categories))>> \o ErrorsOf(Tail(categories))

\* Variant of preflight_config_access that reports a requested category it
\* has no check for
PreflightFailingUnprobed(config_types, failing) ==
    IF config_types = <<>> \/ "all" \in Range(config_types)
    THEN [ok |-> TRUE, errors |-> <<>>, calls |-> <<>>]
    ELSE LET requested(c) == c \in Range(config_types)
             failed(c) == c \in failing
             calls == SelectSeq(CheckOrder, requested)
             unprobed(c) == c \notin Range(CheckOrder)
             errors == ErrorsOf(SelectSeq(calls, failed))
                         \o ErrorsOf(SelectSeq(config_types, unprobed))
         IN  [ok |-> errors = <<>>, errors |-> errors, calls |-> calls]

\* preflight_config_access (lines 183-204) against an environment whose
\* reads of the categories `failing` fail: (ok, errors), and the checks it
\* called, in the order it called them
preflight_config_access(config_types, failing) ==
    IF config_types = <<>> \/ "all" \in Range(config_types)
    THEN [ok |-> TRUE, errors |-> <<>>, calls |-> <<>>]
    ELSE LET requested(c) == c \in Range(config_types)
             failed(c) == c \in failing
             calls == SelectSeq(CheckOrder, requested)
             errors == ErrorsOf(SelectSeq(calls, failed))
         IN  [ok |-> Len(errors) = 0, errors |-> errors, calls |-> calls]

\* ---------------------------------------------------- MonacoCliService
BackupTag(types) ==
    IF "all" \in Range(types) THEN "all"
    ELSE IF Len(types) = 1 THEN types[1] ELSE "multi"

\* backup_name (lines 68-77), the timestamp to the second; management_zone
\* "" is None
ZonedBackupName(config_types, management_zone, timestamp) ==
    LET normalized_types == IF config_types = <<>> THEN <<"all">> ELSE config_types
    IN  IF management_zone = ""
        THEN <<"backup", BackupTag(normalized_types), timestamp>>
        ELSE <<"backup", BackupTag(normalized_types), <<"mz", management_zone>>,
               timestamp>>

\* f"backup_{backup_tag}_{timestamp}": the name of an export that was asked
\* for no management zone
BackupName(config_types, timestamp) == ZonedBackupName(config_types, "", timestamp)

\* The warnings export_configs logs (lines 93-103; insecure_ssl is left out)
ExportWarnings(config_types, management_zone) ==
    (IF ~build_monaco_api_filters(config_types).resolved
     THEN {"Unknown config type in selection; downloading all configurations."}
     ELSE {})
    \cup
    (IF management_zone # ""
     THEN {"Management zone filter is not supported by Monaco v2 download; exporting all zones."}
     ELSE {})

\* The row bulk_backup stores for a successful export (lines 97-107); info
\* is what get_backup_info answers.  backup_path is kept as the directory's
\* name; checksum is not set: <<>> is None.
NewBackup(name, env_id, management_zone, info) ==
    [name |-> name, backup_path |-> name, environment_id |-> env_id,
     management_zone |-> management_zone,
     size_bytes |-> info.size_bytes, file_count |-> info.file_count,
     checksum |-> <<>>]

\* The row BackupService.create_backup stores (lines 73-84); environment_id
\* is not set: 0 is None.
CreateBackupRow(name, management_zone, info, checksum) ==
    [name |-> name, backup_path |-> name, environment_id |-> 0,
     management_zone |-> management_zone,
     size_bytes |-> info.size_bytes, file_count |-> info.file_count,
     checksum |-> checksum]

ExportMessage(tool) ==
    CASE tool = "ok"      -> "Export successful"
      [] tool = "nonzero" -> "Export failed: stderr"
      [] tool = "timeout" -> "Operation timeout after 300s"
      [] tool = "error"   -> "Export error: e"

\* Variant of export_configs whose timeout handler leaves the directory
ExportConfigsKeepsDirOnTimeout(disk, config_types, timestamp, tool) ==
    LET backup_path == BackupName(config_types, timestamp)
        made == disk \cup {backup_path}
    IN  IF tool = "ok"
        THEN [success |-> TRUE, message |-> ExportMessage(tool),
              backup_path |-> backup_path, made |-> backup_path, disk |-> made]
        ELSE [success |-> FALSE, message |-> ExportMessage(tool),
              backup_path |-> <<>>, made |-> backup_path,
              disk |-> IF tool = "timeout" THEN made ELSE made \ {backup_path}]

\* export_configs on a disk holding the directories `disk`, at second
\* `timestamp`: (success, message, backup_path) and the disk afterwards.
ExportConfigs(disk, config_types, timestamp, tool) ==
    LET backup_path == BackupName(config_types, timestamp)
        made == disk \cup {backup_path}              \* mkdir(exist_ok=True)
    IN  IF tool = "ok"
        THEN [success |-> TRUE, message |-> ExportMessage(tool),
              backup_path |-> backup_path, made |-> backup_path, disk |-> made]
        ELSE [success |-> FALSE, message |-> ExportMessage(tool),
              backup_path |-> <<>>, made |-> backup_path,
              disk |-> made \ {backup_path}]         \* shutil.rmtree

\* Columns environment_url and api_token of environment row e
EnvUrl(e) == <<"https://env", e>>

EnvToken(e) == <<"dt0c01", e>>

\* f"DTBM_TOKEN_{uuid.uuid4().hex}"
TokenEnvVar(uuid) == <<"DTBM_TOKEN_", uuid>>

\* Variant of the export invocation with the token on the command line
ExportCommandTokenInline(environment_url, api_token, config_types, backup_path, uuid) ==
    LET monaco_apis == build_monaco_api_filters(config_types)
    IN  [cmd |-> [program |-> "monaco", verb |-> "download",
                  url |-> environment_url, token |-> api_token,
                  output_folder |-> backup_path,
                  api |-> IF monaco_apis.resolved THEN monaco_apis.apis ELSE <<>>],
         env |-> [name |-> TokenEnvVar(uuid), value |-> api_token]]

\* export_configs, lines 83-113: what subprocess.run is called with.  cmd is
\* kept by option name; api = <<>>: no --api option (no filter, or the
\* selection did not resolve and everything is downloaded); env is the one
\* variable added to os.environ.
ExportCommand(environment_url, api_token, config_types, backup_path, uuid) ==
    LET token_env_var == TokenEnvVar(uuid)
        monaco_apis == build_monaco_api_filters(config_types)
    IN  [cmd |-> [program |-> "monaco", verb |-> "download",
                  url |-> environment_url, token |-> token_env_var,
                  output_folder |-> backup_path,
                  api |-> IF monaco_apis.resolved THEN monaco_apis.apis ELSE <<>>],
         env |-> [name |-> token_env_var, value |-> api_token]]

\* Variant of the restore invocation that never appends --dry-run
RestoreCommandWithoutDryRun(backup_path, environment_url, api_token, dry_run, has_project, uuid) ==
    [manifest |->
        [manifestVersion |-> "1.0",
         projects |-> <<[name |-> IF has_project THEN "project" ELSE "backup",
                         path |-> IF has_project THEN "project" ELSE "."]>>,
         environmentGroups |-> <<[name |-> "default", environments |->
            <<[name |-> "target",
               url |-> [type |-> "value", value |-> environment_url],
               auth |-> [token |-> [type |-> "environment",
                                    name |-> TokenEnvVar(uuid)]]]>>]>>],
     cmd |-> [program |-> "monaco", verb |-> "deploy",
              manifest_path |-> <<backup_path, "manifest.yaml">>,
              environment |-> "target",
              project |-> IF has_project THEN "project" ELSE "backup",
              flags |-> {}],
     env |-> [name |-> TokenEnvVar(uuid), value |-> api_token],
     cwd |-> backup_path]

\* restore_configs, lines 161-217: the manifest written to
\* backup_path/manifest.yaml and what subprocess.run is called with.
\* has_project: backup_path/project exists.
RestoreCommand(backup_path, environment_url, api_token, dry_run, has_project, uuid) ==
    LET token_env_var == TokenEnvVar(uuid)
        env_name == "target"
        project_name == IF has_project THEN "project" ELSE "backup"
        project_rel_path == IF has_project THEN "project" ELSE "."
    IN  [manifest |->
            [manifestVersion |-> "1.0",
             projects |-> <<[name |-> project_name, path |-> project_rel_path]>>,
             environmentGroups |-> <<[name |-> "default", environments |->
                <<[name |-> env_name,
                   url |-> [type |-> "value", value |-> environment_url],
                   auth |-> [token |-> [type |-> "environment",
                                        name |-> token_env_var]]]>>]>>],
         cmd |-> [program |-> "monaco", verb |-> "deploy",
                  manifest_path |-> <<backup_path, "manifest.yaml">>,
                  environment |-> env_name, project |-> project_name,
                  flags |-> IF dry_run THEN {"--dry-run"} ELSE {}],
         env |-> [name |-> token_env_var, value |-> api_token],
         cwd |-> backup_path]

RestoreMessage(tool) ==
    CASE tool = "ok"      -> "Restore successful"
      [] tool = "nonzero" -> "Restore failed: stderr"
      [] tool = "timeout" -> "Operation timeout after 300s"
      [] tool = "error"   -> "Restore error: e"

\* The external tool: `deploy` changes the configuration of the environment
\* of the manifest unless it is given --dry-run; a run that ends non-zero or
\* is killed at the timeout may have applied a part; tool = "error": the
\* process did not start.
DeployChanges(cmd, tool) ==
    "--dry-run" \notin cmd.flags /\ tool \in {"ok", "nonzero", "timeout"}

\* restore_configs: (success, message); whether the tool was invoked, with
\* which flags, and whether the invocation changed the target.  The name of
\* the token variable and the layout of the backup directory are in none of
\* these.
RestoreConfigs(disk, backup_path, environment_url, api_token, dry_run, tool) ==
    LET run == RestoreCommand(backup_path, environment_url, api_token, dry_run,
                              TRUE, "1f")
    IN  IF backup_path \notin disk
        THEN [success |-> FALSE, message |-> "Backup path not found",
              invoked |-> FALSE, flags |-> {}, changed |-> FALSE]
        ELSE [success |-> tool = "ok", message |-> RestoreMessage(tool),
              invoked |-> TRUE, flags |-> run.cmd.flags,
              changed |-> DeployChanges(run.cmd, tool)]

\* ------------------------------------------------------ background tasks
\* Arguments handed to add_task, and the locals of the task.
\*   pc: "queued" scheduled, "loop" inside the loop over the targets (for a
\*       restore the loop over the backups, "pair" inside its inner loop),
\*       "done" returned
\*   fault: the task ended in its outer `except` (or, for a compare, without
\*       its source environment)
\* The observation `last` names the iteration by the loop indices b and i it
\* ran at, and keeps the counters as they were when it began.
\*   healthy: what the target's test_connection() answers or would answer
\*   ran: the kind's own step (export, restore invocation, comparison read)
\*        was run for the target
\*   tool, flags, changed: the outcome of the external tool if it was
\*        invoked, the flags it was given, whether it changed the target
\*   unhealthy, upset: what the targets of a bulk backup did so far
\*       (observation): the targets whose connection test failed, and whether
\*       anything else went wrong that the environment decides (a missing
\*       row, a failed preflight, a failed export, a failing database call)
\*   config_type, source_items: the category a bulk compare was asked for
\*       ("" is None) and what it read from the source environment;
\*       source_ok: every read of the source succeeded (observation)
NewTask(kind, ids, types, backup_ids, dry_run, source) ==
    [kind |-> kind, pc |-> "queued",
     environment_ids |-> ids, config_types |-> types,
     backup_ids |-> backup_ids, dry_run |-> dry_run, source_env_id |-> source,
     i |-> 1, b |-> 1,
     results |-> <<>>, successful |-> 0, failed |-> 0,
     fault |-> FALSE, unhealthy |-> {}, upset |-> FALSE,
     config_type |-> "", source_items |-> <<>>, source_ok |-> TRUE]

NoRequest == [kind |-> "none", resolvable |-> TRUE, reply |-> "none"]

NoCall == [fn |-> "none"]

\* What the reads of a compare iteration answered: whether every read of
\* the source and of the target succeeded, and the item ids on both sides
NoReads == [source_ok |-> TRUE, target_ok |-> TRUE, source |-> {}, target |-> {}]

NoIteration ==
    [job |-> 0, kind |-> "none", b |-> 0, i |-> 0, key |-> <<>>,
     outcome |-> "none", tool |-> "none", made |-> <<>>,
     successful |-> 0, failed |-> 0,
     healthy |-> TRUE, ran |-> FALSE, flags |-> {}, changed |-> FALSE,
     errors |-> {}, reads |-> NoReads]

\* The backups table after n earlier exports of all categories, one per
\* second, the latest a second before the behaviour starts.
OldBackups(n) ==
    [k \in 1..n |-> NewBackup(<<"backup", "all", k - n - 1>>, 1, "",
                               get_backup_info(ExportedTree))]

\* The columns of an environment row as create_environment left them
\* (environments.py lines 40-58): the connection test at creation succeeded,
\* before the behaviour starts
CreatedRow == [description |-> "", is_healthy |-> TRUE, last_tested_at |-> -1]

\* Earlier exports left MaxOld backups; the directory of the oldest one has
\* since been removed from the disk.
Init ==
    /\ envs = EnvIds
    /\ backups = OldBackups(MaxOld)
    /\ dirs = {OldBackups(MaxOld)[k].name : k \in 2..MaxOld}
    /\ now = 0
    /\ bulk_ops = <<>>
    /\ task = <<>>
    /\ last = NoIteration
    /\ request = NoRequest
    /\ call = NoCall
    /\ restores = <<>>
    /\ comparisons = <<>>
    /\ env_rows = [e \in EnvIds |-> CreatedRow]

\* The outer `except` of the three tasks: the row is fetched again and
\* marked failed.  bulk_backup and bulk_restore stamp completed_at,
\* bulk_compare does not.
OrchestrationFailure(op, kind, message) ==
    [op EXCEPT !.status = "failed",
               !.error_message = message,
               !.completed_at = IF kind = "compare" THEN op.completed_at ELSE TRUE]

\* Variants of the status written after the loop: one that writes the
\* initial status when a target failed, one that writes failed
LoopStatusPending(failed) == IF failed = 0 THEN "success" ELSE "pending"

LoopStatusFailed(failed) == IF failed = 0 THEN "success" ELSE "failed"

\* The status written after the loop
LoopStatus(failed) == IF failed = 0 THEN "success" ELSE "partial"

\* Variant of the update after the loop that does not store successful_count
CompletedWithoutSuccessful(op, t) ==
    [op EXCEPT !.status = IF t.failed = 0 THEN "success" ELSE "partial",
               !.failed_count = t.failed,
               !.partial_count = IF t.kind = "backup" THEN 0 ELSE op.partial_count,
               !.completed_at = TRUE,
               !.results_summary = t.results]

\* Variant of the update after the loop that leaves the status as it is
CompletedLeavingStatus(op, t) ==
    [op EXCEPT !.successful_count = t.successful,
               !.failed_count = t.failed,
               !.partial_count = IF t.kind = "backup" THEN 0 ELSE op.partial_count,
               !.completed_at = TRUE,
               !.results_summary = t.results]

\* "# Update bulk operation": the update that follows the loop.
\* bulk_backup also resets partial_count.
Completed(op, t) ==
    [op EXCEPT !.status = LoopStatus(t.failed),
               !.successful_count = t.successful,
               !.failed_count = t.failed,
               !.partial_count = IF t.kind = "backup" THEN 0 ELSE op.partial_count,
               !.completed_at = TRUE,
               !.results_summary = t.results]

\* ------------------------------------------------------- request handlers
\* One operation per behaviour: the handlers that maintain the environment
\* rows run in behaviours of their own, in which no bulk operation and no
\* single restore is requested after them.  The tasks read none of the
\* columns these handlers write.
MaintenanceKinds == {"update_environment", "test_environment", "test_connection"}

\* Variant of the update that takes the changed URL and token for untested
UpdatedRowResettingHealth(row, description) ==
    [row EXCEPT !.description = description, !.is_healthy = FALSE]

\* update_environment, lines 108-115: the columns it assigns (of name, URL,
\* token, type, insecure_ssl and tags only the description is kept)
UpdatedRow(row, description) == [row EXCEPT !.description = description]

\* test_environment lines 160-161, test_connection lines 95-96
TestedRow(row, is_healthy, at) ==
    [row EXCEPT !.is_healthy = is_healthy, !.last_tested_at = at]

\* PUT /{env_id} (environments.py lines 95-119)
UpdateEnvironment(e) ==
    /\ bulk_ops = <<>> /\ restores = <<>>
    /\ \E description \in {"", "edited"} :
        IF e \notin envs
        THEN /\ request' = [kind |-> "update_environment", resolvable |-> TRUE,
                             reply |-> "404", env_id |-> e]
             /\ env_rows' = env_rows
        ELSE /\ request' = [kind |-> "update_environment", resolvable |-> TRUE,
                             reply |-> "200", env_id |-> e]
             /\ env_rows' = [env_rows EXCEPT ![e] = UpdatedRow(@, description)]
    /\ UNCHANGED <<comparisons, restores, call, envs, backups, dirs, now, bulk_ops,
                   task, last>>

\* POST /{env_id}/test (environments.py lines 137-168)
TestEnvironment(e) ==
    /\ bulk_ops = <<>> /\ restores = <<>>
    /\ \E is_healthy \in BOOLEAN :
        IF e \notin envs
        THEN /\ request' = [kind |-> "test_environment", resolvable |-> TRUE,
                             reply |-> "404", env_id |-> e]
             /\ env_rows' = env_rows
        ELSE /\ request' = [kind |-> "test_environment", resolvable |-> TRUE,
                             reply |-> is_healthy, env_id |-> e]
             /\ env_rows' = [env_rows EXCEPT ![e] = TestedRow(@, is_healthy, now)]
    /\ UNCHANGED <<comparisons, restores, call, envs, backups, dirs, now, bulk_ops,
                   task, last>>

\* POST /connections/{connection_id}/test (api/dynatrace.py lines 75-103)
TestConnection(e) ==
    /\ bulk_ops = <<>> /\ restores = <<>>
    /\ \E is_healthy \in BOOLEAN :
        IF e \notin envs
        THEN /\ request' = [kind |-> "test_connection", resolvable |-> TRUE,
                             reply |-> "404", env_id |-> e]
             /\ env_rows' = env_rows
        ELSE /\ request' = [kind |-> "test_connection", resolvable |-> TRUE,
                             reply |-> is_healthy, env_id |-> e]
             /\ env_rows' = [env_rows EXCEPT ![e] = TestedRow(@, is_healthy, now)]
    /\ UNCHANGED <<comparisons, restores, call, envs, backups, dirs, now, bulk_ops,
                   task, last>>

\* POST /bulk/backup: the selector is resolved first; an unknown preset or
\* an empty resolution is answered 400 before the row is created.
BulkBackupRequest ==
    /\ Len(bulk_ops) < Cardinality(JobIds) /\ restores = <<>>
    /\ request.kind \notin MaintenanceKinds
    /\ \E ids \in IdLists(EnvIds), sel \in Selectors :
        LET r == resolve_config_types(sel.config_types, sel.config_type,
                                      sel.config_preset)
        IN  IF ~r.ok \/ r.types = <<>>
            THEN /\ request' = [kind |-> "backup", resolvable |-> Resolvable(sel),
                                 reply |-> "400"]
                 /\ UNCHANGED <<env_rows, comparisons, bulk_ops, task>>
            ELSE /\ request' = [kind |-> "backup", resolvable |-> Resolvable(sel),
                                 reply |-> "started"]
                 /\ bulk_ops' = Append(bulk_ops,
                        NewBulkOperation("backup", ids, "pending"))
                 /\ task' = Append(task,
                        NewTask("backup", ids, r.types, <<>>, FALSE, 0))
    /\ UNCHANGED <<env_rows, comparisons, restores, call, envs, backups, dirs, now, last>>

\* A selection of backups: ids in ascending order, none twice
Selections(S) ==
    {s \in IdLists(S) : \A k \in 1..(Len(s) - 1) : s[k] < s[k + 1]}

\* POST /bulk/restore: a selection of backup ids, among them one that names
\* no row.  The body is a plain dict; its config_type only fills a column of
\* the row, and nothing of the selector is resolved.
BulkRestoreRequest ==
    /\ Len(bulk_ops) < Cardinality(JobIds) /\ restores = <<>>
    /\ request.kind \notin MaintenanceKinds
    /\ \E ids \in IdLists(EnvIds), bids \in Selections(1..(Len(backups) + 1)),
          dry_run \in BOOLEAN, sel \in Selectors :
        /\ sel.config_types = <<>>
        /\ Len(bids) * Len(ids) <= MaxPairs
        /\ request' = [kind |-> "restore", resolvable |-> Resolvable(sel),
                        reply |-> "started"]
        /\ bulk_ops' = Append(bulk_ops, NewBulkOperation("restore", ids, "pending"))
        /\ task' = Append(task, NewTask("restore", ids, <<>>, bids, dry_run, 0))
    /\ UNCHANGED <<env_rows, comparisons, restores, call, envs, backups, dirs, now, last>>

\* POST /bulk/compare: the row is created in_progress.  The body is a plain
\* dict; its config_type is handed to the task as it is, and nothing of the
\* selector is resolved.
BulkCompareRequest ==
    /\ Len(bulk_ops) < Cardinality(JobIds) /\ restores = <<>>
    /\ request.kind \notin MaintenanceKinds
    /\ \E ids \in IdLists(EnvIds), source \in EnvIds, sel \in Selectors :
        /\ sel.config_types = <<>>
        /\ request' = [kind |-> "compare", resolvable |-> Resolvable(sel),
                        reply |-> "started"]
        /\ bulk_ops' = Append(bulk_ops, NewBulkOperation("compare", ids, "in_progress"))
        /\ task' = Append(task,
              [NewTask("compare", ids, <<>>, <<>>, FALSE, source)
                  EXCEPT !.config_type = sel.config_type])
    /\ UNCHANGED <<env_rows, comparisons, restores, call, envs, backups, dirs, now, last>>

\* GET /bulk/{operation_id} (lines 374-398): what a status query answers
\* for the committed row op (id, name and created_at are not modelled)
get_bulk_operation(op) ==
    [operation_type |-> op.operation_type,
     status |-> op.status,
     total_environments |-> op.total_environments,
     successful_count |-> op.successful_count,
     failed_count |-> op.failed_count,
     partial_count |-> op.partial_count,
     completed_at |-> op.completed_at,
     results_summary |-> op.results_summary]

\* ------------------------------------------------------------ api/restore
\* One operation per behaviour: a single restore is requested only while
\* there is neither a bulk operation nor another single restore.
\* POST /api/restore/execute (lines 13-72): 404 if the backup has no row;
\* else a restore_history row in_progress and the task run_restore.
ExecuteRestore ==
    /\ bulk_ops = <<>> /\ restores = <<>>
    /\ request.kind \notin MaintenanceKinds
    /\ \E backup_id \in 1..(Len(backups) + 1), e \in EnvIds, dry_run \in BOOLEAN :
        IF backup_id \notin DOMAIN backups
        THEN /\ request' = [kind |-> "execute_restore", resolvable |-> TRUE,
                             reply |-> "404"]
             /\ restores' = restores
        ELSE /\ request' = [kind |-> "execute_restore", resolvable |-> TRUE,
                             reply |-> "started"]
             /\ restores' = Append(restores,
                    [backup_id |-> backup_id, environment_url |-> EnvUrl(e),
                     api_token |-> EnvToken(e), dry_run |-> dry_run,
                     status |-> "in_progress", completed_at |-> FALSE])
    /\ UNCHANGED <<env_rows, comparisons, call, envs, backups, dirs, now, bulk_ops, task, last>>

\* run_restore (lines 40-63)
RunRestore(k) ==
    /\ k \in DOMAIN restores
    /\ restores[k].status = "in_progress"
    /\ \E tool \in ToolOutcomes :
        LET row == restores[k]
            r == RestoreConfigs(dirs, backups[row.backup_id].name,
                                row.environment_url, row.api_token,
                                row.dry_run, tool)
        IN  /\ restores' = [restores EXCEPT
                    ![k].status = IF r.success THEN "success" ELSE "failed",
                    ![k].completed_at = TRUE]
            /\ last' = [job |-> 0, kind |-> "single", b |-> row.backup_id,
                        i |-> k, key |-> <<"restore", k>>,
                        outcome |-> IF r.success THEN "success"
                                    ELSE "restore_failed",
                        tool |-> IF r.invoked THEN tool ELSE "none",
                        made |-> <<>>, successful |-> 0, failed |-> 0,
                        healthy |-> TRUE, ran |-> r.invoked,
                        flags |-> r.flags, changed |-> r.changed,
                        errors |-> {}, reads |-> NoReads]
    /\ UNCHANGED <<env_rows, comparisons, request, call, envs, backups, dirs, now, bulk_ops, task>>

\* The environment ids task t has yet to look up
Pending(t) ==
    IF t.pc = "done" THEN {}
    ELSE IF t.kind = "restore"
    THEN IF t.pc = "pair" /\ t.b = Len(t.backup_ids)
         THEN {t.environment_ids[k] : k \in t.i..Len(t.environment_ids)}
         ELSE IF t.b > Len(t.backup_ids) THEN {} ELSE Range(t.environment_ids)
    ELSE {t.environment_ids[k] : k \in t.i..Len(t.environment_ids)}
         \cup (IF t.kind = "compare" /\ t.pc = "queued"
                THEN {t.source_env_id} ELSE {})

\* DELETE /{env_id}.  Rows are read by the lookups of the tasks only, so the
\* deletion of a row that no task has yet to look up is not told apart.
DeleteEnvironment(e) ==
    /\ e \in envs
    /\ \E j \in DOMAIN task : e \in Pending(task[j])
    /\ envs' = envs \ {e}
    /\ UNCHANGED <<env_rows, comparisons, restores, request, call, backups, dirs, now, bulk_ops, task, last>>

\* A second of wall-clock time passes.  Only export_configs reads the clock,
\* so the seconds that pass while no bulk backup is in its loop are not told
\* apart.
Tick ==
    /\ now < MaxClock
    /\ \E j \in DOMAIN task : task[j].kind = "backup" /\ task[j].pc = "loop"
    /\ now' = now + 1
    /\ UNCHANGED <<env_rows, comparisons, restores, request, call, envs, backups, dirs, bulk_ops, task, last>>

\* ------------------------------------------------------------ bulk_backup
\* Lines 33-51: fetch the row, mark it in_progress; a failing database call
\* goes to the outer `except`.
BackupStart(j) ==
    /\ j \in DOMAIN task
    /\ task[j].kind = "backup" /\ task[j].pc = "queued"
    /\ \E raises \in BOOLEAN :
        IF raises
        THEN /\ bulk_ops' = [bulk_ops EXCEPT ![j] =
                    OrchestrationFailure(@, "backup", "OperationalError")]
             /\ task' = [task EXCEPT ![j].pc = "done", ![j].fault = TRUE]
        ELSE /\ bulk_ops' = [bulk_ops EXCEPT ![j].status = "in_progress",
                                              ![j].started_at = TRUE]
             /\ task' = [task EXCEPT ![j].pc = "loop"]
    /\ UNCHANGED <<env_rows, comparisons, restores, request, call, envs, backups, dirs, now, last>>

\* Variant of the iteration that runs the export without the preflight
BackupIterationWithoutPreflight(t, env_id, inp) ==
    LET exp == ExportConfigs(dirs, t.config_types, now, inp.tool)
        taken == \E k \in DOMAIN backups : backups[k].name = exp.backup_path
        errors == PreflightErrors(t.config_types, inp.failing)
        failure(outcome, reason, disk, made, found) ==
            [outcome |-> outcome, entry |-> Entry("failed", reason, 0),
             ok |-> FALSE, backups |-> backups, dirs |-> disk, made |-> made,
             errors |-> found]
    IN  IF inp.raise = "query"
        THEN failure("exception", "OperationalError", dirs, <<>>, {})
        ELSE IF env_id \notin envs
        THEN failure("not_found", "Environment not found", dirs, <<>>, {})
        ELSE IF ~inp.healthy
        THEN failure("unhealthy", "Connection failed", dirs, <<>>, {})
        ELSE IF ~exp.success
        THEN failure("export_failed", exp.message, exp.disk, exp.made, errors)
        ELSE IF inp.raise = "commit"
        THEN failure("exception", "OperationalError", exp.disk, exp.made, errors)
        ELSE IF taken
        THEN failure("exception", "IntegrityError", exp.disk, exp.made, errors)
        ELSE [outcome |-> "success",
              entry |-> Entry("success", "", Len(backups) + 1),
              ok |-> TRUE,
              backups |-> Append(backups,
                  NewBackup(exp.backup_path, env_id, "",
                            get_backup_info(ExportedTree))),
              dirs |-> exp.disk, made |-> exp.made, errors |-> errors]

\* One iteration of `for env_id in environment_ids` (lines 54-128) on the
\* tables and the disk as they are: what it did, the entry it left in
\* results, and the tables and the disk afterwards.  errors: the categories
\* the preflight found unreadable, {} if it was not reached.
BackupIteration(t, env_id, inp) ==
    LET exp == ExportConfigs(dirs, t.config_types, now, inp.tool)
        taken == \E k \in DOMAIN backups : backups[k].name = exp.backup_path
        errors == PreflightErrors(t.config_types, inp.failing)
        failure(outcome, reason, disk, made, found) ==
            [outcome |-> outcome, entry |-> Entry("failed", reason, 0),
             ok |-> FALSE, backups |-> backups, dirs |-> disk, made |-> made,
             errors |-> found]
    IN  IF inp.raise = "query"
        THEN failure("exception", "OperationalError", dirs, <<>>, {})
        ELSE IF env_id \notin envs
        THEN failure("not_found", "Environment not found", dirs, <<>>, {})
        ELSE IF ~inp.healthy
        THEN failure("unhealthy", "Connection failed", dirs, <<>>, {})
        ELSE IF errors # {}
        THEN failure("preflight", "Preflight failed", dirs, <<>>, errors)
        ELSE IF ~exp.success
        THEN failure("export_failed", exp.message, exp.disk, exp.made, errors)
        ELSE IF inp.raise = "commit"
        THEN failure("exception", "OperationalError", exp.disk, exp.made, errors)
        ELSE IF taken      \* backups.name and backups.backup_path are unique
        THEN failure("exception", "IntegrityError", exp.disk, exp.made, errors)
        ELSE [outcome |-> "success",
              entry |-> Entry("success", "", Len(backups) + 1),
              ok |-> TRUE,
              backups |-> Append(backups,
                  NewBackup(exp.backup_path, env_id, "",
                            get_backup_info(ExportedTree))),
              dirs |-> exp.disk, made |-> exp.made, errors |-> errors]

BackupTarget(j) ==
    /\ j \in DOMAIN task
    /\ task[j].kind = "backup" /\ task[j].pc = "loop"
    /\ task[j].i <= Len(task[j].environment_ids)
    /\ \E inp \in Inputs :
        LET t == task[j]
            env_id == t.environment_ids[t.i]
            r == BackupIteration(t, env_id, inp)
        IN  /\ task' = [task EXCEPT
                ![j].i = t.i + 1,
                ![j].results = Put(t.results, EnvKey(env_id), r.entry),
                ![j].successful = IF r.ok THEN t.successful + 1 ELSE t.successful,
                ![j].failed = IF r.ok THEN t.failed ELSE t.failed + 1,
                ![j].unhealthy = IF r.outcome = "unhealthy"
                                 THEN t.unhealthy \cup {env_id} ELSE t.unhealthy,
                ![j].upset = t.upset
                    \/ r.outcome \in {"not_found", "preflight", "export_failed"}
                    \/ (r.outcome = "exception" /\ inp.raise # "none")]
            /\ backups' = r.backups
            /\ dirs' = r.dirs
            /\ last' = [job |-> j, kind |-> "backup", b |-> t.b, i |-> t.i,
                        key |-> EnvKey(env_id),
                        outcome |-> r.outcome,
                        tool |-> IF r.made = <<>> THEN "none" ELSE inp.tool,
                        made |-> r.made,
                        successful |-> t.successful, failed |-> t.failed,
                        healthy |-> inp.healthy,
                        ran |-> r.made # <<>>,
                        flags |-> {}, changed |-> FALSE, errors |-> r.errors,
                        reads |-> NoReads]
    /\ UNCHANGED <<env_rows, comparisons, restores, request, call, envs, now, bulk_ops>>

\* Lines 130-150: the update after the loop; if its commit fails, the outer
\* `except`.
BackupFinish(j) ==
    /\ j \in DOMAIN task
    /\ task[j].kind = "backup" /\ task[j].pc = "loop"
    /\ task[j].i > Len(task[j].environment_ids)
    /\ \E raises \in BOOLEAN :
        IF raises
        THEN /\ bulk_ops' = [bulk_ops EXCEPT ![j] =
                    OrchestrationFailure(@, "backup", "OperationalError")]
             /\ task' = [task EXCEPT ![j].pc = "done", ![j].fault = TRUE]
        ELSE /\ bulk_ops' = [bulk_ops EXCEPT ![j] = Completed(@, task[j])]
             /\ task' = [task EXCEPT ![j].pc = "done"]
    /\ UNCHANGED <<env_rows, comparisons, restores, request, call, envs, backups, dirs, now, last>>

\* ----------------------------------------------------------- bulk_restore
\* Lines 161-175
RestoreStart(j) ==
    /\ j \in DOMAIN task
    /\ task[j].kind = "restore" /\ task[j].pc = "queued"
    /\ \E raises \in BOOLEAN :
        IF raises
        THEN /\ bulk_ops' = [bulk_ops EXCEPT ![j] =
                    OrchestrationFailure(@, "restore", "OperationalError")]
             /\ task' = [task EXCEPT ![j].pc = "done", ![j].fault = TRUE]
        ELSE /\ bulk_ops' = [bulk_ops EXCEPT ![j].status = "in_progress",
                                              ![j].started_at = TRUE]
             /\ task' = [task EXCEPT ![j].pc = "loop"]
    /\ UNCHANGED <<env_rows, comparisons, restores, request, call, envs, backups, dirs, now, last>>

\* Lines 178-185: the head of `for backup_id in backup_ids`.  The lookup is
\* outside the inner `try`: if it raises, the outer `except` ends the task.
\* A backup that is not found is skipped with all its targets.
RestoreBackup(j) ==
    /\ j \in DOMAIN task
    /\ task[j].kind = "restore" /\ task[j].pc = "loop"
    /\ task[j].b <= Len(task[j].backup_ids)
    /\ \E raises \in BOOLEAN :
        LET t == task[j]
            backup_id == t.backup_ids[t.b]
        IN  IF raises
            THEN /\ bulk_ops' = [bulk_ops EXCEPT ![j] =
                        OrchestrationFailure(@, "restore", "OperationalError")]
                 /\ task' = [task EXCEPT ![j].pc = "done", ![j].fault = TRUE]
            ELSE /\ bulk_ops' = bulk_ops
                 /\ task' = IF backup_id \in DOMAIN backups
                               /\ t.environment_ids # <<>>
                            THEN [task EXCEPT ![j].pc = "pair", ![j].i = 1]
                            ELSE [task EXCEPT ![j].b = t.b + 1]
    /\ UNCHANGED <<env_rows, comparisons, restores, request, call, envs, backups, dirs, now, last>>

\* One iteration of `for target_env_id in target_environment_ids` (lines
\* 187-235): what it did, whether it left an entry in results and which,
\* and which counter it raised.
RestoreIteration(t, backup_id, target_env_id, inp) ==
    LET r == RestoreConfigs(dirs, backups[backup_id].name, EnvUrl(target_env_id),
                            EnvToken(target_env_id), t.dry_run, inp.tool)
        key == PairKey(backup_id, target_env_id)
        skipped(outcome, failed) ==
            [outcome |-> outcome, results |-> t.results,
             successful |-> t.successful, failed |-> failed,
             invoked |-> FALSE, flags |-> {}, changed |-> FALSE]
    IN  IF inp.raise = "query"
        THEN skipped("exception", t.failed + 1)
        ELSE IF target_env_id \notin envs
        THEN skipped("not_found", t.failed)
        ELSE IF inp.raise = "commit"
        THEN [outcome |-> "exception", results |-> t.results,
              successful |-> t.successful, failed |-> t.failed + 1,
              invoked |-> r.invoked, flags |-> r.flags, changed |-> r.changed]
        ELSE IF r.success
        THEN [outcome |-> "success",
              results |-> Put(t.results, key, Entry("success", "", 0)),
              successful |-> t.successful + 1, failed |-> t.failed,
              invoked |-> r.invoked, flags |-> r.flags, changed |-> r.changed]
        ELSE [outcome |-> "restore_failed",
              results |-> Put(t.results, key, Entry("failed", r.message, 0)),
              successful |-> t.successful, failed |-> t.failed + 1,
              invoked |-> r.invoked, flags |-> r.flags, changed |-> r.changed]

RestorePair(j) ==
    /\ j \in DOMAIN task
    /\ task[j].kind = "restore" /\ task[j].pc = "pair"
    /\ \E inp \in Inputs :
        LET t == task[j]
            backup_id == t.backup_ids[t.b]
            target_env_id == t.environment_ids[t.i]
            r == RestoreIteration(t, backup_id, target_env_id, inp)
            more == t.i < Len(t.environment_ids)
        IN  /\ task' = [task EXCEPT
                ![j].results = r.results,
                ![j].successful = r.successful,
                ![j].failed = r.failed,
                ![j].i = IF more THEN t.i + 1 ELSE 1,
                ![j].b = IF more THEN t.b ELSE t.b + 1,
                ![j].pc = IF more THEN "pair" ELSE "loop"]
            /\ last' = [job |-> j, kind |-> "restore", b |-> t.b, i |-> t.i,
                        key |-> PairKey(backup_id, target_env_id),
                        outcome |-> r.outcome,
                        tool |-> IF r.invoked THEN inp.tool ELSE "none",
                        made |-> <<>>,
                        successful |-> t.successful, failed |-> t.failed,
                        healthy |-> inp.healthy, ran |-> r.invoked,
                        flags |-> r.flags, changed |-> r.changed,
                        errors |-> {}, reads |-> NoReads]
    /\ UNCHANGED <<env_rows, comparisons, restores, request, call, envs, backups, dirs, now, bulk_ops>>

\* Lines 237-256
RestoreFinish(j) ==
    /\ j \in DOMAIN task
    /\ task[j].kind = "restore" /\ task[j].pc = "loop"
    /\ task[j].b > Len(task[j].backup_ids)
    /\ \E raises \in BOOLEAN :
        IF raises
        THEN /\ bulk_ops' = [bulk_ops EXCEPT ![j] =
                    OrchestrationFailure(@, "restore", "OperationalError")]
             /\ task' = [task EXCEPT ![j].pc = "done", ![j].fault = TRUE]
        ELSE /\ bulk_ops' = [bulk_ops EXCEPT ![j] = Completed(@, task[j])]
             /\ task' = [task EXCEPT ![j].pc = "done"]
    /\ UNCHANGED <<env_rows, comparisons, restores, request, call, envs, backups, dirs, now, last>>

\* ----------------------------------------------------------- bulk_compare
\* The branch taken when the source environment has no row (lines 278-282)
SourceMissing(op) ==
    [op EXCEPT !.status = "failed",
               !.error_message = "Source environment not found"]

\* The ids of the items a list read returns: none, or two of three items
ItemSets == {{}, {"a", "b"}, {"b", "c"}}

\* What one list read of DynatraceAPIService answers (get_alerting_profiles
\* and the like): (True, items, "Success") or (False, [], error)
Reads ==
    {[ok |-> TRUE, ids |-> ids] : ids \in ItemSets}
        \cup {[ok |-> FALSE, ids |-> {}]}

\* The categories _get_config_items knows how to read
ComparedTypes == {"alerting", "dashboards", "slo"}

\* _get_config_items: category -> ids of the items read.  The success flag
\* and the message of every read are dropped.  read: what the list of
\* alerting profiles answers; the other lists are empty.
get_config_items(config_type, read) ==
    [c \in {c \in ComparedTypes : config_type \in {c, "all"}} |->
        IF c = "alerting" THEN read.ids ELSE {}]

\* The keys of source_flat / target_flat
FlatIds(items) == UNION {items[c] : c \in DOMAIN items}

\* Variant of _compare_items whose total adds the sizes of the two sides
CompareItemsTotalBySum(source, target) ==
    LET source_ids == FlatIds(source)
        target_ids == FlatIds(target)
    IN  [total |-> Cardinality(source_ids) + Cardinality(target_ids),
         identical |-> Cardinality(source_ids \cap target_ids),
         different |-> 0,
         only_in_source |-> Cardinality(source_ids \ target_ids),
         only_in_target |-> Cardinality(target_ids \ source_ids),
         details |-> [source_only |-> source_ids \ target_ids,
                      target_only |-> target_ids \ source_ids]]

\* _compare_items
compare_items(source, target) ==
    LET source_ids == FlatIds(source)
        target_ids == FlatIds(target)
    IN  [total |-> Cardinality(source_ids \cup target_ids),
         identical |-> Cardinality(source_ids \cap target_ids),
         different |-> 0,
         only_in_source |-> Cardinality(source_ids \ target_ids),
         only_in_target |-> Cardinality(target_ids \ source_ids),
         details |-> [source_only |-> source_ids \ target_ids,
                      target_only |-> target_ids \ source_ids]]

\* The ConfigComparison row of lines 320-331
NewComparison(source_env_id, target_env_id, config_type, comparison) ==
    [source_environment_id |-> source_env_id,
     target_environment_id |-> target_env_id,
     config_type |-> config_type,
     total_items |-> comparison.total,
     identical_count |-> comparison.identical,
     different_count |-> comparison.different,
     only_in_source |-> comparison.only_in_source,
     only_in_target |-> comparison.only_in_target,
     comparison_details |-> comparison.details]

\* The success entry of lines 335-341
CompareEntry(comparison) ==
    [status |-> "success",
     identical |-> comparison.identical,
     different |-> comparison.different,
     only_in_source |-> comparison.only_in_source,
     only_in_target |-> comparison.only_in_target]

\* Lines 267-296: fetch the row and the source environment, read the source
CompareStart(j) ==
    /\ j \in DOMAIN task
    /\ task[j].kind = "compare" /\ task[j].pc = "queued"
    /\ \E raises \in BOOLEAN, read \in Reads :
        IF raises
        THEN /\ bulk_ops' = [bulk_ops EXCEPT ![j] =
                    OrchestrationFailure(@, "compare", "OperationalError")]
             /\ task' = [task EXCEPT ![j].pc = "done", ![j].fault = TRUE]
        ELSE IF task[j].source_env_id \notin envs
        THEN /\ bulk_ops' = [bulk_ops EXCEPT ![j] = SourceMissing(@)]
             /\ task' = [task EXCEPT ![j].pc = "done", ![j].fault = TRUE]
        ELSE /\ bulk_ops' = bulk_ops
             /\ task' = [task EXCEPT
                    ![j].pc = "loop",
                    ![j].source_items = get_config_items(task[j].config_type, read),
                    ![j].source_ok = read.ok \/ DOMAIN get_config_items(
                                        task[j].config_type, read) = {}]
    /\ UNCHANGED <<env_rows, comparisons, restores, request, call, envs, backups, dirs, now, last>>

\* One iteration of `for target_env_id in target_env_ids` (lines 298-347):
\* what it did, the entry it left in results, the counters and the table
\* config_comparisons afterwards, and what the reads answered.
CompareIteration(t, target_env_id, inp, read) ==
    LET key == EnvKey(target_env_id)
        target_items == get_config_items(t.config_type, read)
        comparison == compare_items(t.source_items, target_items)
        unread == [source_ok |-> t.source_ok, target_ok |-> TRUE,
                   source |-> FlatIds(t.source_items), target |-> {}]
        answered == [source_ok |-> t.source_ok,
                     target_ok |-> read.ok \/ DOMAIN target_items = {},
                     source |-> FlatIds(t.source_items),
                     target |-> FlatIds(target_items)]
    IN  IF inp.raise = "query"
        THEN [outcome |-> "exception",
              results |-> Put(t.results, key, Entry("failed", "OperationalError", 0)),
              successful |-> t.successful, failed |-> t.failed + 1,
              comparisons |-> comparisons, reads |-> unread]
        ELSE IF target_env_id \notin envs
        THEN [outcome |-> "not_found", results |-> t.results,
              successful |-> t.successful, failed |-> t.failed + 1,
              comparisons |-> comparisons, reads |-> unread]
        ELSE IF inp.raise = "commit"
        THEN [outcome |-> "exception",
              results |-> Put(t.results, key, Entry("failed", "OperationalError", 0)),
              successful |-> t.successful, failed |-> t.failed + 1,
              comparisons |-> comparisons, reads |-> answered]
        ELSE [outcome |-> "success",
              results |-> Put(t.results, key, CompareEntry(comparison)),
              successful |-> t.successful + 1, failed |-> t.failed,
              comparisons |-> Append(comparisons,
                  NewComparison(t.source_env_id, target_env_id, t.config_type,
                                comparison)),
              reads |-> answered]

CompareTarget(j) ==
    /\ j \in DOMAIN task
    /\ task[j].kind = "compare" /\ task[j].pc = "loop"
    /\ task[j].i <= Len(task[j].environment_ids)
    /\ \E inp \in Inputs, read \in Reads :
        LET t == task[j]
            target_env_id == t.environment_ids[t.i]
            r == CompareIteration(t, target_env_id, inp, read)
        IN  /\ task' = [task EXCEPT
                ![j].i = t.i + 1,
                ![j].results = r.results,
                ![j].successful = r.successful,
                ![j].failed = r.failed]
            /\ comparisons' = r.comparisons
            /\ last' = [job |-> j, kind |-> "compare", b |-> t.b, i |-> t.i,
                        key |-> EnvKey(target_env_id),
                        outcome |-> r.outcome, tool |-> "none", made |-> <<>>,
                        successful |-> t.successful, failed |-> t.failed,
                        healthy |-> inp.healthy,
                        ran |-> inp.raise # "query" /\ target_env_id \in envs,
                        flags |-> {}, changed |-> FALSE, errors |-> {},
                        reads |-> r.reads]
    /\ UNCHANGED <<env_rows, restores, request, call, envs, backups, dirs, now, bulk_ops>>

\* Lines 349-365
CompareFinish(j) ==
    /\ j \in DOMAIN task
    /\ task[j].kind = "compare" /\ task[j].pc = "loop"
    /\ task[j].i > Len(task[j].environment_ids)
    /\ \E raises \in BOOLEAN :
        IF raises
        THEN /\ bulk_ops' = [bulk_ops EXCEPT ![j] =
                    OrchestrationFailure(@, "compare", "OperationalError")]
             /\ task' = [task EXCEPT ![j].pc = "done", ![j].fault = TRUE]
        ELSE /\ bulk_ops' = [bulk_ops EXCEPT ![j] = Completed(@, task[j])]
             /\ task' = [task EXCEPT ![j].pc = "done"]
    /\ UNCHANGED <<env_rows, comparisons, restores, request, call, envs, backups, dirs, now, last>>

\* -------------------------------------------------------- specifications
\* Every step of the background task of bulk operation j
TaskStep(j) ==
    \/ BackupStart(j) \/ BackupTarget(j) \/ BackupFinish(j)
    \/ RestoreStart(j) \/ RestoreBackup(j) \/ RestorePair(j) \/ RestoreFinish(j)
    \/ CompareStart(j) \/ CompareTarget(j) \/ CompareFinish(j)

Next ==
    \/ BulkBackupRequest
    \/ BulkRestoreRequest
    \/ BulkCompareRequest
    \/ ExecuteRestore
    \/ \E k \in RestoreIds : RunRestore(k)
    \/ \E e \in EnvIds : DeleteEnvironment(e)
    \/ \E e \in EnvIds : UpdateEnvironment(e)
    \/ \E e \in EnvIds : TestEnvironment(e)
    \/ \E e \in EnvIds : TestConnection(e)
    \/ Tick
    \/ \E j \in JobIds : BackupStart(j)
    \/ \E j \in JobIds : BackupTarget(j)
    \/ \E j \in JobIds : BackupFinish(j)
    \/ \E j \in JobIds : RestoreStart(j)
    \/ \E j \in JobIds : RestoreBackup(j)
    \/ \E j \in JobIds : RestorePair(j)
    \/ \E j \in JobIds : RestoreFinish(j)
    \/ \E j \in JobIds : CompareStart(j)
    \/ \E j \in JobIds : CompareTarget(j)
    \/ \E j \in JobIds : CompareFinish(j)

Spec == Init /\ [][Next]_vars

\* The worker that runs a background task keeps running it, and every remote
\* call and tool invocation returns or times out: a task that can take a step
\* eventually takes one.
FairSpec ==
    /\ Spec
    /\ \A j \in JobIds : WF_vars(TaskStep(j))
    /\ WF_vars(\E k \in RestoreIds : RunRestore(k))

\* ------------------------------------------------------- direct calls
\* The functions of config_catalog, MonacoCliService and BackupService called
\* on their own, on arguments drawn from small sets.
state == <<envs, backups, dirs, now, bulk_ops, task, last, request, restores,
           comparisons, env_rows>>

\* Category lists: catalog keys, the sentinel, and a key of no catalog entry
ListKeys == {"alerting", "metric_events", "anomaly_detection", "all", "bogus"}

TypeLists == UNION {[1..n -> ListKeys] : n \in 0..MaxList}

PresetNames == {"", "core", "ops", "full", "bogus"}

CallResolve ==
    /\ \E config_types \in TypeLists, config_type \in {"", "alerting", "slo"},
          config_preset \in PresetNames :
        call' = [fn |-> "resolve_config_types",
                 config_types |-> config_types, config_type |-> config_type,
                 config_preset |-> config_preset,
                 result |-> resolve_config_types(config_types, config_type,
                                                 config_preset)]
    /\ UNCHANGED state

CallFilters ==
    /\ \E config_types \in TypeLists :
        call' = [fn |-> "build_monaco_api_filters",
                 config_types |-> config_types,
                 result |-> build_monaco_api_filters(config_types)]
    /\ UNCHANGED state

Urls == {EnvUrl(e) : e \in EnvIds}

Tokens == {EnvToken(e) : e \in EnvIds}

Uuids == {"1f", "2e"}

CallExportCommand ==
    /\ \E environment_url \in Urls, api_token \in Tokens,
          config_types \in TypeLists \ {<<>>}, uuid \in Uuids :
        call' = [fn |-> "export_configs",
                 environment_url |-> environment_url, api_token |-> api_token,
                 config_types |-> config_types,
                 backup_path |-> BackupName(config_types, now), uuid |-> uuid,
                 result |-> ExportCommand(environment_url, api_token, config_types,
                                BackupName(config_types, now), uuid)]
    /\ UNCHANGED state

CallRestoreCommand ==
    /\ \E k \in DOMAIN backups, environment_url \in Urls, api_token \in Tokens,
          dry_run \in BOOLEAN, has_project \in BOOLEAN, uuid \in Uuids :
        call' = [fn |-> "restore_configs",
                 backup_path |-> backups[k].name,
                 environment_url |-> environment_url, api_token |-> api_token,
                 dry_run |-> dry_run, has_project |-> has_project, uuid |-> uuid,
                 result |-> RestoreCommand(backups[k].name, environment_url,
                                api_token, dry_run, has_project, uuid)]
    /\ UNCHANGED state

Zones == {"", "production"}

\* An artifact directory: the entries below backup_path, each a regular file
\* (with its bytes) or a directory, with a modification time and a mode.
Trees ==
    [Range(PathOrder) ->
        [is_file : BOOLEAN, bytes : {<<>>, <<104>>, <<104, 105>>},
         mtime : {0}, mode : {"rw-r--r--"}]]

\* The same entries with other times and modes
Touched(tree) ==
    [p \in DOMAIN tree |-> [tree[p] EXCEPT !.mtime = 1, !.mode = "rwxrwxrwx"]]

\* rglob('*') may list the entries in any order
Listings == {l \in [1..Len(PathOrder) -> Range(PathOrder)] : Range(l) = Range(PathOrder)}

CallChecksum ==
    /\ \E tree \in Trees, listing \in Listings :
        /\ \A p \in DOMAIN tree : ~tree[p].is_file => tree[p].bytes = <<>>
        /\ call' = [fn |-> "_calculate_checksum", tree |-> tree,
                    listing |-> listing,
                    result |-> calculate_checksum(listing, tree)]
    /\ UNCHANGED state

\* A successful export for one target of a bulk backup and the row stored
\* for it (bulk_backup, lines 84-109).  raises: the commit of the row fails.
\* records: the rows of the table backups the call leaves.
CallExportZoned ==
    /\ \E config_types \in TypeLists \ {<<>>}, management_zone \in Zones,
          env_id \in EnvIds, raises \in BOOLEAN :
        LET backup_path == ZonedBackupName(config_types, management_zone, now)
            record == NewBackup(backup_path, env_id, management_zone,
                                get_backup_info(ExportedTree))
        IN  call' = [fn |-> "export_and_record",
                     config_types |-> config_types,
                     management_zone |-> management_zone,
                     env_id |-> env_id, tree |-> ExportedTree,
                     listing |-> PathOrder,
                     result |-> [warnings |-> ExportWarnings(config_types,
                                                              management_zone),
                                 backup_path |-> backup_path,
                                 record |-> record,
                                 records |-> IF raises THEN <<>> ELSE <<record>>]]
    /\ UNCHANGED state

\* BackupService.create_backup (lines 51-91) for the environment env_id,
\* whose URL and token the request carries, when the export succeeds and
\* writes `tree`.  raises: the commit of the row fails (lines 93-96).
CallCreateBackup ==
    /\ \E config_types \in {<<"all">>, <<"alerting">>}, management_zone \in Zones,
          env_id \in EnvIds, tree \in ExportedTrees, listing \in Listings,
          raises \in BOOLEAN :
        LET backup_path == ZonedBackupName(config_types, management_zone, now)
            record == CreateBackupRow(backup_path, management_zone,
                                      get_backup_info(tree),
                                      calculate_checksum(listing, tree))
        IN  call' = [fn |-> "create_backup",
                     config_types |-> config_types,
                     management_zone |-> management_zone,
                     env_id |-> env_id, tree |-> tree, listing |-> listing,
                     result |-> [warnings |-> ExportWarnings(config_types,
                                                              management_zone),
                                 backup_path |-> backup_path,
                                 record |-> record,
                                 records |-> IF raises THEN <<>> ELSE <<record>>]]
    /\ UNCHANGED state

\* Category lists handed to the preflight: two categories that have a
\* check, one that has none, and the sentinel
PreflightKeys == {"alerting", "slo", "metric_events", "all"}

PreflightLists == UNION {[1..n -> PreflightKeys] : n \in 0..MaxList}

CallPreflight ==
    /\ \E config_types \in PreflightLists,
          failing \in SUBSET {"alerting", "slo", "dashboards"} :
        call' = [fn |-> "preflight_config_access",
                 config_types |-> config_types, failing |-> failing,
                 result |-> preflight_config_access(config_types, failing)]
    /\ UNCHANGED state

FnNext ==
    \/ CallPreflight
    \/ CallCreateBackup
    \/ CallResolve
    \/ CallFilters
    \/ CallExportCommand
    \/ CallRestoreCommand
    \/ CallExportZoned
    \/ CallChecksum

FnSpec == Init /\ [][FnNext]_vars

\* ------------------------------------------------------------- properties
Rank(st) ==
    CASE st = "pending" -> 0 [] st = "in_progress" -> 1 [] st \in Terminal -> 2

\* The string keys of the targets a bulk operation was given
TargetKeys(op) == {EnvKey(e) : e \in Range(op.environment_ids)}

\* The step is a loop iteration of some task
Iterates == last' # last

\* The exception texts the model distinguishes
ExceptionTexts == {"OperationalError", "IntegrityError"}

\* C1: the status of a bulk operation only moves forward along
\* pending -> in_progress -> {success, partial, failed}; no step takes it
\* back to an earlier stage.
C1_StatusNeverRegresses ==
    [][\A j \in DOMAIN bulk_ops :
          Rank(bulk_ops'[j].status) >= Rank(bulk_ops[j].status)]_vars

\* A bulk operation that went pending -> in_progress -> partial
C1_Witness ==
    \E j \in DOMAIN bulk_ops :
        /\ bulk_ops[j].operation_type = "backup"
        /\ bulk_ops[j].started_at
        /\ bulk_ops[j].status = "partial"

\* C2: every bulk operation whose background task starts eventually has a
\* terminal status and completed_at set.
C2_StartedEventuallyCompleted ==
    \A j \in JobIds :
        (j \in DOMAIN task /\ task[j].pc # "queued")
            ~> (/\ j \in DOMAIN bulk_ops
                /\ bulk_ops[j].status \in Terminal
                /\ bulk_ops[j].completed_at)

\* C3: a bulk operation whose orchestration failed outside the handling of a
\* single target has status failed, a non-empty error message and
\* completed_at set.
C3_OrchestrationFailureStamped ==
    \A j \in DOMAIN task :
        task[j].fault =>
            /\ bulk_ops[j].status = "failed"
            /\ bulk_ops[j].error_message # ""
            /\ bulk_ops[j].completed_at

C5_StatusFromCounts ==
    \A j \in DOMAIN bulk_ops :
        LET op == bulk_ops[j]
        IN  op.status \in Terminal =>
                /\ (op.status = "success") <=> (op.failed_count = 0)
                /\ (op.status = "partial")
                     <=> (0 < op.failed_count
                            /\ op.failed_count < op.total_environments)

\* C5 amended: a terminal bulk operation is partial exactly when
\* failed_count > 0, whatever total_environments is; it is success exactly
\* when failed_count = 0 and its orchestration did not fail; a row closed as
\* failed has failed_count = 0.
C5_StatusFromFailedCount ==
    \A j \in DOMAIN bulk_ops :
        LET op == bulk_ops[j]
        IN  op.status \in Terminal =>
                /\ (op.status = "partial") <=> (op.failed_count > 0)
                /\ (op.status = "success")
                     <=> (op.failed_count = 0 /\ ~task[j].fault)
                /\ (op.status = "failed") <=> task[j].fault

\* A bulk operation all of whose targets failed, closed as partial
C5_Witness ==
    \E j \in DOMAIN bulk_ops :
        /\ bulk_ops[j].status = "partial"
        /\ bulk_ops[j].total_environments > 0
        /\ bulk_ops[j].failed_count = bulk_ops[j].total_environments

\* C6: once a bulk operation is terminal, the keys of results_summary are
\* exactly the target environment ids it was given.  Stated for the rows the
\* claim can be about at all: those closed by the update after the loop
\* (status success or partial) of a bulk backup or compare, whose entries are
\* keyed by environment id.
C6_OneEntryPerTarget ==
    \A j \in DOMAIN bulk_ops :
        (/\ bulk_ops[j].operation_type \in {"backup", "compare"}
         /\ bulk_ops[j].status \in {"success", "partial"})
            => DOMAIN bulk_ops[j].results_summary = TargetKeys(bulk_ops[j])

\* C7: an iteration that ends in an exception leaves the task in its loop,
\* puts a failed entry with the exception text under the target's key and
\* raises failed by one and successful not at all.
C7_ExceptionIsolated ==
    [][(Iterates /\ last'.outcome = "exception") =>
          LET t == task'[last'.job]
          IN  /\ t.pc \in {"loop", "pair"}
              /\ last'.key \in DOMAIN t.results
              /\ t.results[last'.key].status = "failed"
              /\ t.results[last'.key].reason \in ExceptionTexts
              /\ t.failed = last'.failed + 1
              /\ t.successful = last'.successful]_vars

\* C8: an iteration whose target has no environment row leaves the entry
\* {failed, "Environment not found"} under the target's key, raises failed
\* by one and leaves the task in its loop, for every kind of bulk operation.
C8_MissingEnvironmentRecorded ==
    [][(Iterates /\ last'.outcome = "not_found") =>
          LET t == task'[last'.job]
          IN  /\ t.pc \in {"loop", "pair"}
              /\ last'.key \in DOMAIN t.results
              /\ t.results[last'.key] = Entry("failed", "Environment not found", 0)
              /\ t.failed = last'.failed + 1]_vars

\* C9: a bulk backup over N distinct existing targets of which the set F
\* fails its connection test, every other call succeeding, ends with
\* successful_count = N - |F|, failed_count = |F|, one entry per target, and
\* status partial when 0 < |F| < N.
C9_BackupCountsByHealth ==
    \A j \in DOMAIN task :
        LET t == task[j]
            op == bulk_ops[j]
            N == Len(t.environment_ids)
            F == t.unhealthy
        IN  (/\ t.kind = "backup" /\ t.pc = "done" /\ ~t.fault /\ ~t.upset
             /\ Cardinality(Range(t.environment_ids)) = N)
            =>  /\ op.successful_count = N - Cardinality(F)
                /\ op.failed_count = Cardinality(F)
                /\ DOMAIN op.results_summary = TargetKeys(op)
                /\ (0 < Cardinality(F) /\ Cardinality(F) < N)
                     => op.status = "partial"

\* C10: a bulk-backup iteration whose export fails leaves no directory of
\* the export's name, puts the export's message as the reason of the
\* target's failed entry, raises failed by one and goes on to the next
\* target.
C10_FailedExportCleansUp ==
    [][(Iterates /\ last'.kind = "backup"
          /\ last'.tool \in {"nonzero", "timeout", "error"}) =>
          LET t == task'[last'.job]
          IN  /\ last'.made \notin dirs'
              /\ last'.outcome = "export_failed"
              /\ t.results[last'.key]
                    = Entry("failed", ExportMessage(last'.tool), 0)
              /\ t.failed = last'.failed + 1
              /\ t.pc = "loop" /\ t.i = last'.i + 1]_vars

\* A bulk backup of environments 1 and 2 closed as partial: the export of 1
\* timed out in second 0 and left no directory, the export of 2 succeeded
\* afterwards.
C10_Witness ==
    \E j \in DOMAIN bulk_ops :
        LET op == bulk_ops[j]
        IN  /\ op.operation_type = "backup" /\ op.status = "partial"
            /\ op.environment_ids = <<1, 2>>
            /\ DOMAIN op.results_summary = {EnvKey(1), EnvKey(2)}
            /\ op.results_summary[EnvKey(1)]
                  = Entry("failed", ExportMessage("timeout"), 0)
            /\ op.results_summary[EnvKey(2)].status = "success"
            /\ BackupName(task[j].config_types, 0) \notin dirs
            /\ last.made = BackupName(task[j].config_types, 1)

\* C11: a bulk restore of the backups B (all of them rows of the table) to
\* the targets T, neither list naming an id twice, that ran to the update
\* after its loops has one results entry per pair of B x T, under the pair's
\* key, and successful_count + failed_count = |B| * |T|.
C11_EveryPairRecorded ==
    \A j \in DOMAIN task :
        LET t == task[j]
            op == bulk_ops[j]
            B == Range(t.backup_ids)
            T == Range(t.environment_ids)
        IN  (/\ t.kind = "restore" /\ t.pc = "done" /\ ~t.fault
             /\ B \subseteq DOMAIN backups
             /\ Cardinality(B) = Len(t.backup_ids)
             /\ Cardinality(T) = Len(t.environment_ids))
            =>  /\ DOMAIN op.results_summary = {PairKey(b, e) : b \in B, e \in T}
                /\ op.successful_count + op.failed_count
                      = Cardinality(B) * Cardinality(T)

\* C12: a bulk request of any kind whose selector resolves to no category or
\* names an unknown preset is answered with an error, creates no
\* bulk_operations row and schedules no task.
C12_UnresolvableRejected ==
    [][(request' # request /\ ~request'.resolvable) =>
          /\ request'.reply = "400"
          /\ bulk_ops' = bulk_ops
          /\ task' = task]_vars

\* C13: resolve_config_types returns the preset's categories whenever a
\* preset is named, whatever list and single category come with it; else the
\* explicit list if it is not empty; else the single category as a list of
\* one; else the empty list.  It fails exactly when the preset named is not
\* registered.  The preset core is six categories.
C13_ResolvePrecedence ==
    call.fn = "resolve_config_types" =>
        LET r == call.result
            named == call.config_preset # ""
        IN  /\ ~r.ok <=> (named /\ call.config_preset \notin DOMAIN CONFIG_PRESETS)
            /\ (named /\ r.ok) => r.types = CONFIG_PRESETS[call.config_preset]
            /\ (call.config_preset = "core" /\ r.ok) =>
                  (Len(r.types) = 6 /\ Cardinality(Range(r.types)) = 6)
            /\ (~named /\ call.config_types # <<>>) => r.types = call.config_types
            /\ (~named /\ call.config_types = <<>> /\ call.config_type # "")
                  => r.types = <<call.config_type>>
            /\ (~named /\ call.config_types = <<>> /\ call.config_type = "")
                  => r.types = <<>>

\* The preset core named next to an explicit list and a single category
C13_Witness ==
    /\ call.fn = "resolve_config_types"
    /\ call.config_preset = "core"
    /\ call.config_types = <<"metric_events", "all">>
    /\ call.config_type = "slo"
    /\ call.result.ok
    /\ call.result.types = CONFIG_PRESETS["core"]

\* The lists that hold the elements of s, each as often, in any order
Orderings(s) ==
    {p \in [DOMAIN s -> Range(s)] :
        \A x \in Range(s) :
            Cardinality({k \in DOMAIN s : p[k] = x})
                = Cardinality({k \in DOMAIN s : s[k] = x})}

\* C14: build_monaco_api_filters returns the no-filter marker for an input
\* that holds the sentinel "all"; for any other input that holds a key of no
\* catalog entry it returns the unresolvable result, which is none of the
\* other results; for an input of catalog keys only it returns the union of
\* their provider filters with no filter twice; and every ordering of the
\* input gives the same result.
C14_ProviderFilters ==
    call.fn = "build_monaco_api_filters" =>
        LET r == call.result
            keys == Range(call.config_types)
            unknown == keys \ (DOMAIN CONFIG_TYPES \cup {"all"})
        IN  /\ "all" \in keys => (r.resolved /\ r.apis = <<>>)
            /\ ("all" \notin keys /\ unknown # {}) => ~r.resolved
            /\ ("all" \notin keys /\ unknown = {}) =>
                  /\ r.resolved
                  /\ Range(r.apis) = UNION {Range(CONFIG_TYPES[k]) : k \in keys}
                  /\ Cardinality(Range(r.apis)) = Len(r.apis)
            /\ \A p \in Orderings(call.config_types) :
                  build_monaco_api_filters(p) = r

\* Two categories that share a provider filter
C14_Witness ==
    /\ call.fn = "build_monaco_api_filters"
    /\ call.config_types = <<"metric_events", "anomaly_detection">>
    /\ call.result.resolved
    /\ Len(call.result.apis) = Len(CONFIG_TYPES["anomaly_detection"])
    /\ call.result.apis[1] = "anomaly-detection-applications"

\* C15: the manifest written and the command line of an export or restore
\* invocation are the same whatever the API token is; the command line and
\* the manifest name the randomly named variable, and the token is the value
\* of that variable in the child's environment.
C15_TokenOnlyInEnvironment ==
    /\ call.fn = "export_configs" =>
          /\ \A other \in Tokens :
                ExportCommand(call.environment_url, other, call.config_types,
                              call.backup_path, call.uuid).cmd = call.result.cmd
          /\ call.result.cmd.token = TokenEnvVar(call.uuid)
          /\ call.result.env = [name |-> TokenEnvVar(call.uuid),
                                value |-> call.api_token]
    /\ call.fn = "restore_configs" =>
          LET auth == call.result.manifest.environmentGroups[1].environments[1].auth
          IN  /\ \A other \in Tokens :
                    LET r == RestoreCommand(call.backup_path, call.environment_url,
                                other, call.dry_run, call.has_project, call.uuid)
                    IN  r.cmd = call.result.cmd /\ r.manifest = call.result.manifest
              /\ auth.token = [type |-> "environment", name |-> TokenEnvVar(call.uuid)]
              /\ call.result.env = [name |-> TokenEnvVar(call.uuid),
                                    value |-> call.api_token]

\* An export invoked with the token of environment 2
C15_Witness ==
    /\ call.fn = "export_configs"
    /\ call.api_token = EnvToken(2)
    /\ call.result.env.value = EnvToken(2)
    /\ call.result.cmd.token = TokenEnvVar(call.uuid)

\* The dry_run a restore iteration was requested with
DryRunOf(l) ==
    IF l.kind = "single" THEN restores[l.i].dry_run ELSE task[l.job].dry_run

C17_ZoneNeverPresented ==
    (call.fn = "export_and_record" /\ call.management_zone # "") =>
        /\ "Management zone filter is not supported by Monaco v2 download; exporting all zones."
              \in call.result.warnings
        /\ call.result.backup_path
              = ZonedBackupName(call.config_types, "", now)
        /\ call.result.record.management_zone = ""

C19_DestinationsDistinct ==
    [][(Iterates /\ last'.kind = "backup" /\ last'.ran) =>
          /\ last'.made \notin dirs
          /\ \A k \in DOMAIN backups : backups[k].name # last'.made
          /\ \A k \in DOMAIN backups :
                backups[k].name \in dirs => backups[k].name \in dirs']_vars

\* C20: in every kind of bulk job, an iteration that finds the target's row
\* and whose target fails the connection test records the target as failed
\* with the test's message, runs no export, restore invocation or comparison
\* read for it, and leaves the task in its loop.
C20_ConnectionTestFirst ==
    [][(/\ Iterates /\ last'.kind \in {"backup", "restore", "compare"}
        /\ last'.outcome \notin {"not_found", "exception"}
        /\ ~last'.healthy) =>
          LET t == task'[last'.job]
          IN  /\ last'.outcome = "unhealthy"
              /\ ~last'.ran
              /\ last'.key \in DOMAIN t.results
              /\ t.results[last'.key] = Entry("failed", "Connection failed", 0)
              /\ t.failed = last'.failed + 1
              /\ t.pc \in {"loop", "pair"}]_vars

\* C21: in a bulk backup the export tool is invoked for a target only after
\* the target's connection test succeeded and its preflight found every
\* probed category readable; an iteration whose preflight fails records the
\* target as failed and invokes no export; and an iteration that records a
\* success entry has stored a backups row for the target, whose id the entry
\* carries.
C21_ExportAfterChecks ==
    [][(Iterates /\ last'.kind = "backup") =>
          LET t == task'[last'.job]
              e == t.results[last'.key]
              env_id == task[last'.job].environment_ids[last'.i]
          IN  /\ last'.ran => (last'.healthy /\ last'.errors = {})
              /\ last'.errors # {} =>
                    /\ ~last'.ran /\ last'.tool = "none"
                    /\ last'.outcome = "preflight"
                    /\ e = Entry("failed", "Preflight failed", 0)
                    /\ t.failed = last'.failed + 1
                    /\ backups' = backups /\ dirs' = dirs
              /\ e.status = "success" =>
                    /\ e.backup_id \notin DOMAIN backups
                    /\ e.backup_id \in DOMAIN backups'
                    /\ backups'[e.backup_id].name = last'.made
                    /\ backups'[e.backup_id].environment_id = env_id
                    /\ last'.made \in dirs']_vars

\* A bulk backup whose first target failed the preflight and whose second
\* target was exported and stored
C21_Witness ==
    \E j \in DOMAIN task :
        LET t == task[j]
        IN  /\ t.kind = "backup" /\ t.environment_ids = <<1, 2>> /\ t.i = 3
            /\ t.results[EnvKey(1)] = Entry("failed", "Preflight failed", 0)
            /\ t.results[EnvKey(2)].status = "success"
            /\ t.results[EnvKey(2)].backup_id = Len(backups)
            /\ backups[Len(backups)].environment_id = 2
            /\ last.ran /\ last.errors = {}

\* C22: in a bulk compare, an iteration that got as far as its reads and
\* whose read of the source or of the target failed records the target as
\* failed and stores no config_comparisons row for it; a success entry is
\* recorded only when both reads succeeded.
C22_FailedReadFailsTarget ==
    [][(/\ Iterates /\ last'.kind = "compare" /\ last'.ran
        /\ last'.outcome # "exception") =>
          LET t == task'[last'.job]
              both == last'.reads.source_ok /\ last'.reads.target_ok
          IN  /\ ~both =>
                    /\ last'.key \in DOMAIN t.results
                    /\ t.results[last'.key].status = "failed"
                    /\ t.failed = last'.failed + 1
                    /\ comparisons' = comparisons
              /\ (/\ last'.key \in DOMAIN t.results
                  /\ t.results[last'.key].status = "success") => both]_vars

\* C23: the config_comparisons row and the results entry of a compared
\* target have identical = |S \cap T|, only_in_source = |S \ T|,
\* only_in_target = |T \ S| and different = 0, and the row has
\* total_items = |S \cup T| = identical + only_in_source + only_in_target,
\* for the id sets S and T read from the source and from the target.
C23_ComparisonStatistics ==
    [][(Iterates /\ last'.kind = "compare" /\ last'.outcome = "success") =>
          LET S == last'.reads.source
              T == last'.reads.target
              e == task'[last'.job].results[last'.key]
              row == comparisons'[Len(comparisons')]
          IN  /\ Len(comparisons') = Len(comparisons) + 1
              /\ row.target_environment_id
                    = task[last'.job].environment_ids[last'.i]
              /\ row.identical_count = Cardinality(S \cap T)
              /\ row.only_in_source = Cardinality(S \ T)
              /\ row.only_in_target = Cardinality(T \ S)
              /\ row.different_count = 0
              /\ row.total_items = Cardinality(S \cup T)
              /\ row.identical_count + row.only_in_source + row.only_in_target
                    = row.total_items
              /\ e = [status |-> "success",
                      identical |-> Cardinality(S \cap T), different |-> 0,
                      only_in_source |-> Cardinality(S \ T),
                      only_in_target |-> Cardinality(T \ S)]]_vars

\* A comparison of a source holding a and b with a target holding b and c
C23_Witness ==
    /\ last.kind = "compare" /\ last.outcome = "success"
    /\ last.reads.source = {"a", "b"} /\ last.reads.target = {"b", "c"}
    /\ comparisons # <<>>
    /\ comparisons[Len(comparisons)].total_items = 3
    /\ comparisons[Len(comparisons)].identical_count = 1
    /\ comparisons[Len(comparisons)].only_in_source = 1
    /\ comparisons[Len(comparisons)].only_in_target = 1

\* Every target of the task has been handled: its loops have run out
LoopsFinished(t) ==
    /\ t.pc = "loop"
    /\ IF t.kind = "restore" THEN t.b > Len(t.backup_ids)
       ELSE t.i > Len(t.environment_ids)

\* C24: a bulk_operations row of any kind is created with status pending;
\* an iteration over a target runs only while the row is in_progress with
\* started_at set; and a row becomes terminal only in a step that finds the
\* loops of its task run out or that ends the task in an orchestration
\* failure.
C24_StatusBracketsTheWork ==
    [][/\ \A j \in DOMAIN bulk_ops' :
             j \notin DOMAIN bulk_ops =>
                (bulk_ops'[j].status = "pending" /\ task'[j].pc = "queued")
       /\ (Iterates /\ last'.job \in DOMAIN bulk_ops) =>
             /\ bulk_ops[last'.job].status = "in_progress"
             /\ bulk_ops[last'.job].started_at
       /\ \A j \in DOMAIN bulk_ops :
             (bulk_ops[j].status \notin Terminal
                /\ bulk_ops'[j].status \in Terminal) =>
                   (LoopsFinished(task[j]) \/ task'[j].fault)]_vars

\* The task of row j went through its loops and not one target succeeded
AllTargetsFailed(j) ==
    /\ task[j].pc = "done"
    /\ bulk_ops[j].error_message = ""
    /\ task[j].successful = 0 /\ task[j].failed > 0

Progress(op) ==
    LET v == get_bulk_operation(op)
    IN  <<v.successful_count, v.failed_count, v.results_summary>>

\* C26: while a bulk_operations row is pending or in_progress a status
\* query answers successful_count 0, failed_count 0 and no results, however
\* many targets the task has handled; what the query answers for these
\* three changes only in a step that takes the row from a non-terminal to a
\* terminal status, so at most once.
C26_CountsOnlyAtTheEnd ==
    [][\A j \in DOMAIN bulk_ops' :
          /\ bulk_ops'[j].status \in {"pending", "in_progress"} =>
                Progress(bulk_ops'[j]) = <<0, 0, <<>> >>
          /\ (j \in DOMAIN bulk_ops
                /\ Progress(bulk_ops'[j]) # Progress(bulk_ops[j])) =>
                /\ bulk_ops[j].status \notin Terminal
                /\ bulk_ops'[j].status \in Terminal
                /\ Progress(bulk_ops'[j]) = <<task[j].successful, task[j].failed,
                                              task[j].results>>]_vars

\* A bulk backup that has handled two targets, one with success and one
\* without, and whose row still answers 0, 0 and no results
C26_Witness ==
    \E j \in DOMAIN bulk_ops :
        /\ bulk_ops[j].status = "in_progress"
        /\ task[j].kind = "backup" /\ task[j].i = 3
        /\ task[j].successful = 1 /\ task[j].failed = 1
        /\ Cardinality(DOMAIN task[j].results) = 2
        /\ Progress(bulk_ops[j]) = <<0, 0, <<>> >>

\* C27: preflight_config_access calls no check and answers success when the
\* category list is empty or holds "all"; otherwise it calls the check of
\* every requested category that has one, answers failure exactly when one
\* of these fails, and its errors are one message per failed category,
\* naming the category; a requested category that has no check changes
\* nothing.
C27_PreflightBestEffort ==
    call.fn = "preflight_config_access" =>
        LET r == call.result
            keys == Range(call.config_types)
            probed == keys \cap ProbedTypes
            bad == probed \cap call.failing
            named == {r.errors[k].category : k \in DOMAIN r.errors}
            known(c) == c \in ProbedTypes
        IN  IF call.config_types = <<>> \/ "all" \in keys
            THEN r.ok /\ r.errors = <<>> /\ r.calls = <<>>
            ELSE /\ Range(r.calls) = probed
                 /\ Len(r.calls) = Cardinality(probed)
                 /\ ~r.ok <=> bad # {}
                 /\ named = bad
                 /\ Len(r.errors) = Cardinality(bad)
                 /\ named = PreflightErrors(call.config_types, call.failing)
                 /\ r = preflight_config_access(
                            SelectSeq(call.config_types, known), call.failing)

\* Two categories requested, the reads of both fail: two messages, in the
\* order of the checks
C27_Witness ==
    /\ call.fn = "preflight_config_access"
    /\ call.config_types = <<"slo", "alerting">>
    /\ call.failing = {"alerting", "slo", "dashboards"}
    /\ ~call.result.ok
    /\ call.result.errors = <<PreflightError("alerting"), PreflightError("slo")>>
    /\ call.result.calls = <<"alerting", "slo">>

\* C28: a successful export, by a single backup or for one target of a bulk
\* backup, leaves exactly one row in the table backups, and the row has the
\* id of the environment exported, the path of the export, the size and the
\* number of its files, and the checksum of its content.
C28_OneCompleteRecord ==
    call.fn \in {"export_and_record", "create_backup"} =>
        LET r == call.result
            info == get_backup_info(call.tree)
        IN  /\ Len(r.records) = 1
            /\ r.records[1].environment_id = call.env_id
            /\ r.records[1].backup_path = r.backup_path
            /\ r.records[1].size_bytes = info.size_bytes
            /\ r.records[1].file_count = info.file_count
            /\ r.records[1].checksum = calculate_checksum(call.listing, call.tree)

\* The health columns of environment row e
Health(rows, e) == <<rows[e].is_healthy, rows[e].last_tested_at>>

\* C29: is_healthy and last_tested_at of an environment row change only in
\* a step of one of the two connection-test handlers on that row; the steps
\* of the bulk tasks, the connection test of a bulk backup among them, and
\* update_environment leave them as they are.
C29_HealthOnlyByTest ==
    [][/\ \A e \in EnvIds :
             Health(env_rows', e) # Health(env_rows, e) =>
                /\ request' # request
                /\ request'.kind \in {"test_environment", "test_connection"}
                /\ request'.env_id = e
       /\ Iterates => env_rows' = env_rows
       /\ (request' # request /\ request'.kind = "update_environment") =>
             \A e \in EnvIds : Health(env_rows', e) = Health(env_rows, e)]_vars

\* An environment whose test at creation succeeded fails the connection
\* test of a bulk backup and is still marked healthy, last tested at creation
C29_Witness ==
    /\ last.kind = "backup" /\ last.outcome = "unhealthy" /\ ~last.healthy
    /\ \E e \in EnvIds :
          /\ last.key = EnvKey(e)
          /\ env_rows[e].is_healthy
          /\ env_rows[e].last_tested_at = -1

\* The rows of the table backups stored since the behaviour began: with one
\* operation per behaviour, the rows the bulk backup created
CreatedBackups == {k \in DOMAIN backups : k > MaxOld}

\* The directories the earlier exports left
EarlierDirs == {OldBackups(MaxOld)[k].name : k \in 2..MaxOld}

\* C30: once a bulk backup is terminal, every backups row it created names
\* a directory that exists, every target recorded as success carries the id
\* of such a row, there are as many such rows as targets that succeeded,
\* and every directory made since the job began is the directory of one of
\* these rows: a failed target leaves neither a row nor a directory.
C30_CatalogMatchesDisk ==
    \A j \in DOMAIN bulk_ops :
        (bulk_ops[j].operation_type = "backup" /\ bulk_ops[j].status \in Terminal) =>
            /\ \A k \in CreatedBackups : backups[k].name \in dirs
            /\ \A key \in DOMAIN task[j].results :
                  task[j].results[key].status = "success" =>
                      task[j].results[key].backup_id \in CreatedBackups
            /\ Cardinality(CreatedBackups) = task[j].successful
            /\ dirs \ EarlierDirs \subseteq {backups[k].name : k \in CreatedBackups}

====
